---------------------------- MODULE Spec2Model ----------------------------
(***************************************************************************)
(* Model of server_fn/src/middleware/mod.rs: the uniform Service / Layer   *)
(* contracts, the type-erased BoxedService handle, and the adapters that   *)
(* bridge them to tower (axum) and to actix-web.                           *)
(*                                                                         *)
(* A future is a nested record that mirrors the nesting of the boxed       *)
(* async blocks the code builds.  None of the adapter futures has a        *)
(* suspension point of its own, so one poll of the outermost future is one *)
(* poll of the native future at the bottom, and when that one is ready the *)
(* whole chain resolves in the same poll.                                  *)
(***************************************************************************)
EXTENDS Naturals, Sequences, FiniteSets

\* ------------------------------------------------------------------ bounds
MaxRequests == 2
MaxLayers == 2

\* ------------------------------------------------------------------ values
Backends == {"axum", "actix", "actix_wrapped"}
Paths == {"/x", "/y"}
\* A request is its path and whether it carries the marker the auth layer looks for
Requests == {[path |-> "/x", marker |-> TRUE], [path |-> "/x", marker |-> FALSE],
             [path |-> "/y", marker |-> TRUE]}
NativeErrors == {"not found", "boom"}
HandlerKinds == {"echo", "any"}
LayerKinds == {"log", "auth"}
Readiness == {"ready", "pending", "error"}
Vias == {"run", "call"}

Ok(v) == [ok |-> TRUE, val |-> v]
Err(e) == [ok |-> FALSE, err |-> e]

\* req.uri().path().to_string()
UriPath(req) == req.path

\* crate::ServerFnError::new(e): the ServerError variant holding e's Display text
ServerFnError_new(e) == [variant |-> "ServerError", msg |-> e]

\* <Response<Body> as Res>::error_response(path, err)
error_response(path, err) == [status |-> 500, body |-> <<"error", path, err.variant, err.msg>>]

\* ActixResponse::from(HttpResponse) and ActixResponse::take(), the newtype around the native response
ActixResponse_from(res) == [actix_response |-> res]
ActixResponse_take(wrapped) == wrapped.actix_response

\* <ActixResponse as Res>::error_response(path, err)
ActixResponse_error_response(path, err) == ActixResponse_from(error_response(path, err))

\* ActixRequest::from((HttpRequest, Payload)), req.0 .0 and req.0.take().0
ActixRequest_from(req) == [actix_request |-> <<req, "payload">>]
ActixRequest_http(areq) == areq.actix_request[1]

\* Responses of the native fixtures
EchoResponse(req) == [status |-> 200, body |-> <<"echo", UriPath(req)>>]
OtherResponse == [status |-> 204, body |-> <<"other">>]
Unauthorized == [status |-> 401, body |-> <<"unauthorized">>]
NoResponse == [status |-> 0, body |-> <<>>]

\* What the terminal native service's future may resolve to, by the kind of handler
NativeOutcomes(kind, req) ==
    IF kind = "echo" THEN {Ok(EchoResponse(req))}
    ELSE {Ok(OtherResponse)} \cup {Err(e) : e \in NativeErrors}

\* ------------------------------------------------------------------ services
\* The terminal backend-native service S, and the service L::Service a native layer builds
NativeService == [kind |-> "native"]
tower_layer(L, inner) == [kind |-> "layered", layer |-> L, inner |-> inner]

\* BoxedService::new(service): Self(Box::new(service))
BoxedService_new(service) == [kind |-> "boxed", inner |-> service]

\* Mutant of layer: the handle is handed back without the new layer around it
layer_forgets(L, inner) == inner

\* Mutant of layer: the new layer is put inside the layer applied before it
layer_swapped(L, inner) ==
    IF inner.inner.kind = "layered"
      THEN [kind |-> "boxed",
            inner |-> tower_layer(inner.inner.layer,
                                  [kind |-> "boxed", inner |-> tower_layer(L, inner.inner.inner)])]
      ELSE [kind |-> "boxed", inner |-> tower_layer(L, inner)]

\* <L as Layer<Request<Body>, Response<Body>>>::layer: BoxedService(Box::new(self.layer(inner)))
layer(L, inner) == [kind |-> "boxed", inner |-> tower_layer(L, inner)]

\* ------------------------------------------------------------------ env
\* env threads the effects of a call: what the native service received, what the
\* logging layer recorded, and the interception events of the request being
\* handled, whose id is cur (history only).
Event(env, phase, L) == [env EXCEPT !.events = Append(@, <<phase, L>>)]

\* S::call(req) of the terminal native service: it takes the request and hands back its future
native_call(req, env) ==
    [env |-> [Event(env, "native", "-") EXCEPT !.received = Append(@, req)],
     fut |-> [kind |-> "native", ticket |-> Len(env.received) + 1, live |-> TRUE]]

RECURSIVE run_axum(_, _, _), tower_call(_, _, _), call_axum(_, _, _), layer_call(_, _, _)

\* Mutant of run_axum: the native call is put off into the async block, so run does not make it
run_axum_lazy(s, req, env) ==
    [env |-> env,
     fut |-> [kind |-> "run_axum", path |-> UriPath(req), live |-> TRUE,
              inner |-> [kind |-> "ready", live |-> TRUE, value |-> Err("not called")]]]

\* <S as Service<Request<Body>, Response<Body>>>::run: path, then self.call(req), then the boxed async block
run_axum(s, req, env) ==
    LET path == UriPath(req)
        inner == tower_call(s, req, env)
    IN [env |-> inner.env,
        fut |-> [kind |-> "run_axum", path |-> path, live |-> TRUE, inner |-> inner.fut]]

\* <BoxedService as tower::Service>::call: self.0.run(req), then the boxed async block
call_axum(b, req, env) ==
    LET inner == run_axum(b.inner, req, env)
    IN [env |-> inner.env,
        fut |-> [kind |-> "call_axum", live |-> TRUE, inner |-> inner.fut]]

\* <L::Service as tower::Service>::call of the layer fixtures: the logging layer
\* records the path and forwards, the auth layer answers 401 without forwarding
\* when the marker is absent.
layer_call(s, req, env) ==
    LET L == s.layer
        seen == Event(env, "pre", L)
        env1 == IF L = "log"
                  THEN [seen EXCEPT !.logged = Append(@, <<env.cur, UriPath(req)>>)]
                  ELSE seen
    IN IF L = "auth" /\ ~req.marker
         THEN [env |-> env1,
               fut |-> [kind |-> "layer", layer |-> L, live |-> TRUE,
                        inner |-> [kind |-> "ready", live |-> TRUE, value |-> Ok(Unauthorized)]]]
         ELSE LET inner == call_axum(s.inner, req, env1)
              IN [env |-> inner.env,
                  fut |-> [kind |-> "layer", layer |-> L, live |-> TRUE, inner |-> inner.fut]]

\* self.call(req) on whatever tower service the blanket impl covers
tower_call(s, req, env) ==
    CASE s.kind = "native" -> native_call(req, env)
      [] s.kind = "layered" -> layer_call(s, req, env)
      [] OTHER -> call_axum(s, req, env)

\* Mutant of run_actix: the path is kept from the first Request the service handled
run_actix_stale(s, req, env) ==
    LET path == IF env.received = <<>> THEN UriPath(req) ELSE UriPath(env.received[1])
        inner == native_call(req, env)
    IN [env |-> inner.env,
        fut |-> [kind |-> "run_actix", path |-> path, live |-> TRUE, inner |-> inner.fut]]

\* <S as Service<HttpRequest, HttpResponse>>::run (S is the native actix service:
\* no actix layer builds a service, so self.call is the native call)
run_actix(s, req, env) ==
    LET path == UriPath(req)
        inner == native_call(req, env)
    IN [env |-> inner.env,
        fut |-> [kind |-> "run_actix", path |-> path, live |-> TRUE, inner |-> inner.fut]]

\* <S as Service<ActixRequest, ActixResponse>>::run: the path of req.0 .0, then self.call(req.0.take().0)
run_actix_wrapped(s, areq, env) ==
    LET path == UriPath(ActixRequest_http(areq))
        inner == native_call(ActixRequest_http(areq), env)
    IN [env |-> inner.env,
        fut |-> [kind |-> "run_actix_wrapped", path |-> path, live |-> TRUE, inner |-> inner.fut]]

\* <BoxedService<HttpRequest, HttpResponse> as actix_web::dev::Service>::call
call_actix(b, req, env) ==
    LET inner == run_actix(b.inner, req, env)
    IN [env |-> inner.env,
        fut |-> [kind |-> "call_actix", live |-> TRUE, inner |-> inner.fut]]

\* <BoxedService<ActixRequest, ActixResponse> as actix_web::dev::Service>::call.
\* The source hands the HttpRequest to self.0.run as it is; run reads req.0 .0,
\* so the request reaches it in the ActixRequest newtype.
call_actix_wrapped(b, req, env) ==
    LET inner == run_actix_wrapped(b.inner, ActixRequest_from(req), env)
    IN [env |-> inner.env,
        fut |-> [kind |-> "call_actix_wrapped", live |-> TRUE, inner |-> inner.fut]]

\* ------------------------------------------------------------------ outputs
\* Mutant of run_axum_output: a failure is swallowed into an empty response
run_axum_output_default(path, res) ==
    IF res.ok THEN res.val ELSE NoResponse

\* The async block of axum run: inner.await.unwrap_or_else(|e| error_response(&path, &ServerFnError::new(e)))
run_axum_output(path, res) ==
    IF res.ok THEN res.val ELSE error_response(path, ServerFnError_new(res.err))

\* Mutant of call_axum_output: the handle rewrites the status of what it forwards
call_axum_output_tamper(res) == Ok([res EXCEPT !.status = 200])

\* The async block of axum call: Ok(inner.await)
call_axum_output(res) == Ok(res)

\* Mutant of run_actix_output: the success response is rebuilt and loses its body
run_actix_output_rebuilt(path, res) ==
    IF res.ok THEN [res.val EXCEPT !.body = <<>>]
    ELSE ActixResponse_take(ActixResponse_error_response(path, ServerFnError_new(res.err)))

\* The async block of actix run: ... ActixResponse::error_response(&path, &err).take()
run_actix_output(path, res) ==
    IF res.ok THEN res.val
    ELSE ActixResponse_take(ActixResponse_error_response(path, ServerFnError_new(res.err)))

\* The async block of the ActixRequest run: ActixResponse::from(inner.await.unwrap_or_else(...))
run_actix_wrapped_output(path, res) ==
    ActixResponse_from(
        IF res.ok THEN res.val
        ELSE ActixResponse_take(ActixResponse_error_response(path, ServerFnError_new(res.err))))

\* Mutant of call_actix_output: a failure response is turned back into a native error
call_actix_output_propagate(res) ==
    IF res.status = 500 THEN Err("handler failed") ELSE Ok(res)

\* The async blocks of the two actix calls: Ok(inner.await) and Ok(inner.await.take())
call_actix_output(res) == Ok(res)
call_actix_wrapped_output(res) == Ok(ActixResponse_take(res))

RECURSIVE resolve(_, _, _), drop_future(_), TicketOf(_)

\* What a future yields, and the effects of yielding it, when the native future
\* at its bottom (if it has one) yields outcome: every level awaits its inner
\* future and maps the value; a layer fixture notes its post-processing and
\* passes the response on.
resolve(fut, outcome, env) ==
    IF fut.kind = "native" THEN [env |-> env, val |-> outcome]
    ELSE IF fut.kind = "ready" THEN [env |-> env, val |-> fut.value]
    ELSE LET r == resolve(fut.inner, outcome, env)
         IN CASE fut.kind = "layer" -> [env |-> Event(r.env, "post", fut.layer), val |-> r.val]
              [] fut.kind = "run_axum" -> [env |-> r.env, val |-> run_axum_output(fut.path, r.val)]
              [] fut.kind = "call_axum" -> [env |-> r.env, val |-> call_axum_output(r.val)]
              [] fut.kind = "run_actix" -> [env |-> r.env, val |-> run_actix_output(fut.path, r.val)]
              [] fut.kind = "run_actix_wrapped" ->
                    [env |-> r.env, val |-> run_actix_wrapped_output(fut.path, r.val)]
              [] fut.kind = "call_actix" -> [env |-> r.env, val |-> call_actix_output(r.val)]
              [] OTHER -> [env |-> r.env, val |-> call_actix_wrapped_output(r.val)]

\* Mutant of drop_future: the inner future was detached and outlives the drop
drop_future_shallow(fut) == [fut EXCEPT !.live = FALSE]

\* Dropping a boxed async block drops what it captured by move: its inner future
drop_future(fut) ==
    IF fut.kind \in {"native", "ready"} THEN [fut EXCEPT !.live = FALSE]
    ELSE [fut EXCEPT !.live = FALSE, !.inner = drop_future(fut.inner)]

\* The native future at the bottom of a future: its place in what the native
\* service received, 0 when the chain was cut short above it
TicketOf(fut) ==
    IF fut.kind = "native" THEN fut.ticket
    ELSE IF fut.kind = "ready" THEN 0
    ELSE TicketOf(fut.inner)

\* ------------------------------------------------------------------ readiness
\* <BoxedService as tower::Service>::poll_ready: Ok(()).into()
poll_ready_axum(b, native_ready) == "ready"

\* Both actix poll_ready: (*self.0 as actix_web::dev::Service<_>).poll_ready(ctx)
poll_ready_actix(b, native_ready) == native_ready
poll_ready_actix_wrapped(b, native_ready) == native_ready

\* ------------------------------------------------------------------ state
VARIABLES backend, via, handler, svc, unwrapped, stack, env, ready, lastReady, futs

vars == <<backend, via, handler, svc, unwrapped, stack, env, ready, lastReady, futs>>

Init ==
    /\ backend \in Backends
    /\ via \in Vias
    /\ handler \in HandlerKinds
    /\ svc = BoxedService_new(NativeService)
    /\ unwrapped = NativeService
    /\ stack = <<>>
    /\ env = [received |-> <<>>, events |-> <<>>, logged |-> <<>>, cur |-> 0]
    /\ ready = "ready"
    /\ lastReady = "none"
    /\ futs = <<>>

\* The host invoking the mounted handle: uniformly (self.0.run) or through the backend's native call
Invoke(req, e) ==
    CASE backend = "axum" /\ via = "run" -> run_axum(svc.inner, req, e)
      [] backend = "axum" /\ via = "call" -> call_axum(svc, req, e)
      [] backend = "actix" /\ via = "run" -> run_actix(svc.inner, req, e)
      [] backend = "actix" /\ via = "call" -> call_actix(svc, req, e)
      [] backend = "actix_wrapped" /\ via = "run" ->
            run_actix_wrapped(svc.inner, ActixRequest_from(req), e)
      [] OTHER -> call_actix_wrapped(svc, req, e)

\* Composition at start-up: one more Layer around the handle (the tower bridge only)
Compose(L) ==
    /\ backend = "axum"
    /\ futs = <<>>
    /\ Len(stack) < MaxLayers
    /\ svc' = layer(L, svc)
    /\ unwrapped' = tower_layer(L, svc)
    /\ stack' = Append(stack, L)
    /\ UNCHANGED <<backend, via, handler, env, ready, lastReady, futs>>

\* One request enters: the call is made and its future is handed to the caller
Run(req) ==
    /\ Len(futs) < MaxRequests
    /\ LET r == Invoke(req, [env EXCEPT !.cur = Len(futs) + 1, !.events = <<>>])
       IN /\ env' = [r.env EXCEPT !.cur = 0, !.events = <<>>]
          /\ futs' = Append(futs, [req |-> req, fut |-> r.fut, state |-> "created",
                                   polled |-> FALSE, ticket |-> TicketOf(r.fut), events |-> r.env.events,
                                   outcome |-> Ok(NoResponse), resp |-> NoResponse, delivered |-> 0])
    /\ UNCHANGED <<backend, via, handler, svc, unwrapped, stack, ready, lastReady>>

Alive(i) == futs[i].state \in {"created", "polled"}

\* The caller polls future i and the native future at its bottom is not ready yet
PollPending(i) ==
    /\ Alive(i)
    /\ futs[i].ticket > 0
    /\ futs' = [futs EXCEPT ![i].state = "polled", ![i].polled = TRUE]
    /\ UNCHANGED <<backend, via, handler, svc, unwrapped, stack, env, ready, lastReady>>

\* The caller polls future i and it completes
PollComplete(i) ==
    /\ Alive(i)
    /\ \E o \in IF futs[i].ticket > 0
                  THEN NativeOutcomes(handler, env.received[futs[i].ticket])
                  ELSE {Ok(NoResponse)} :
          LET r == resolve(futs[i].fut, o, [env EXCEPT !.cur = i, !.events = futs[i].events])
          IN /\ env' = [r.env EXCEPT !.cur = 0, !.events = <<>>]
             /\ futs' = [futs EXCEPT ![i].state = "done", ![i].polled = TRUE, ![i].outcome = o,
                                     ![i].events = r.env.events,
                                     ![i].resp = r.val, ![i].delivered = @ + 1]
    /\ UNCHANGED <<backend, via, handler, svc, unwrapped, stack, ready, lastReady>>

\* The caller drops future i before it completed
Drop(i) ==
    /\ Alive(i)
    /\ futs' = [futs EXCEPT ![i].state = "dropped", ![i].fut = drop_future(@)]
    /\ UNCHANGED <<backend, via, handler, svc, unwrapped, stack, env, ready, lastReady>>

\* The wrapped native service changes its readiness
SetReadiness(r) ==
    /\ r # ready
    /\ ready' = r
    /\ UNCHANGED <<backend, via, handler, svc, unwrapped, stack, env, lastReady, futs>>

\* The host asks the handle whether it is ready
QueryReady ==
    /\ lastReady' = CASE backend = "axum" -> poll_ready_axum(svc, ready)
                      [] backend = "actix" -> poll_ready_actix(svc, ready)
                      [] OTHER -> poll_ready_actix_wrapped(svc, ready)
    /\ UNCHANGED <<backend, via, handler, svc, unwrapped, stack, env, ready, futs>>

\* Request handling: composition, then requests run, polled, completed, dropped
Next ==
    \/ \E L \in LayerKinds : Compose(L)
    \/ \E req \in Requests : Run(req)
    \/ \E i \in 1..Len(futs) : PollPending(i)
    \/ \E i \in 1..Len(futs) : PollComplete(i)
    \/ \E i \in 1..Len(futs) : Drop(i)

Spec == Init /\ [][Next]_vars

\* Readiness negotiation: the handle is asked while the wrapped service's readiness changes
NextReady ==
    \/ \E L \in LayerKinds : Compose(L)
    \/ \E r \in Readiness : SetReadiness(r)
    \/ QueryReady

SpecReady == Init /\ [][NextReady]_vars

\* ------------------------------------------------------------------ helpers
Idx == 1..Len(futs)
Done(i) == futs[i].state = "done"
Dropped(i) == futs[i].state = "dropped"

\* The native service was called for request i and its future failed / succeeded
NativeFailed(i) == Done(i) /\ futs[i].ticket > 0 /\ ~futs[i].outcome.ok
NativeSucceeded(i) == Done(i) /\ futs[i].ticket > 0 /\ futs[i].outcome.ok

\* How the caller sees a response r of the uniform Service: run of the
\* ActixRequest adapter hands it out inside the ActixResponse newtype, the
\* native call of every handle hands it out as Ok(r)
Presented(r) ==
    IF via = "call" THEN Ok(r)
    ELSE IF backend = "actix_wrapped" THEN ActixResponse_from(r)
    ELSE r

Reverse(seq) == [k \in 1..Len(seq) |-> seq[Len(seq) + 1 - k]]
IsPrefix(p, q) == Len(p) <= Len(q) /\ \A k \in 1..Len(p) : p[k] = q[k]
IsPre(e) == e[1] = "pre"
PreLayers(ev) == LET pre == SelectSeq(ev, IsPre) IN [k \in 1..Len(pre) |-> pre[k][2]]
Tagged(phase, ls) == [k \in 1..Len(ls) |-> <<phase, ls[k]>>]

RECURSIVE PathsOf(_), LiveLevels(_)
\* The paths captured by the run levels of a future
PathsOf(fut) ==
    IF fut.kind \in {"native", "ready"} THEN {}
    ELSE (IF fut.kind \in {"run_axum", "run_actix", "run_actix_wrapped"} THEN {fut.path} ELSE {})
         \cup PathsOf(fut.inner)
\* The liveness flags found at the levels of a future
LiveLevels(fut) ==
    IF fut.kind \in {"native", "ready"} THEN {fut.live}
    ELSE {fut.live} \cup LiveLevels(fut.inner)

\* ------------------------------------------------------------------ claims

\* C1: when the native service's call fails with a native error e, run resolves
\* to exactly one Response, and it is error_response(path of the Request,
\* ServerFnError::new(e)), for each of the three adapters.
C1_FailureBecomesOneErrorResponse ==
    /\ \A i \in Idx : futs[i].delivered = IF Done(i) THEN 1 ELSE 0
    /\ \A i \in Idx :
          NativeFailed(i) =>
              futs[i].resp = Presented(error_response(UriPath(futs[i].req),
                                                      ServerFnError_new(futs[i].outcome.err)))

\* The scenario of C1: the native error "not found" for the path /x, through the ActixRequest adapter
C1_Witness ==
    \E i \in Idx :
        /\ NativeFailed(i)
        /\ backend = "actix_wrapped"
        /\ futs[i].outcome = Err("not found")
        /\ futs[i].req.path = "/x"
        /\ futs[i].delivered = 1

\* C2: when the native service's call succeeds, run resolves to exactly one
\* Response, the native success response, unmodified by the adapter and by the
\* handle; the error_response path is not taken.
C2_SuccessPassesThrough ==
    \A i \in Idx :
        NativeSucceeded(i) =>
            /\ futs[i].delivered = 1
            /\ futs[i].resp = Presented(futs[i].outcome.val)
            /\ futs[i].outcome.val.status # 500

C2_Witness ==
    \E i \in Idx :
        /\ NativeSucceeded(i)
        /\ backend = "axum"
        /\ stack # <<>>
        /\ futs[i].outcome.val = OtherResponse

\* C3: poll_ready on the handle always reports ready, whatever the readiness of
\* the wrapped native service, for the tower bridge and both actix bridges.
C3_AlwaysReady == lastReady \in {"none", "ready"}

\* C4: the Layers applied one after another are entered outermost (last
\* applied) first and the terminal handler last, and their post-processing runs
\* in the exact reverse order; the order is fixed by the application order alone.
C4_LayerOrder ==
    \A i \in Idx :
        LET entered == PreLayers(futs[i].events)
        IN /\ IsPrefix(entered, Reverse(stack))
           /\ futs[i].ticket > 0 => entered = Reverse(stack)
           /\ futs[i].events =
                 Tagged("pre", entered)
                 \o (IF futs[i].ticket > 0 THEN <<<<"native", "-">>>> ELSE <<>>)
                 \o (IF Done(i) THEN Tagged("post", Reverse(entered)) ELSE <<>>)

C4_Witness ==
    \E i \in Idx :
        /\ Done(i)
        /\ futs[i].ticket > 0
        /\ stack = <<"auth", "log">>
        /\ futs[i].events = <<<<"pre", "log">>, <<"pre", "auth">>, <<"native", "-">>,
                              <<"post", "auth">>, <<"post", "log">>>>

\* The unwrapped Service, invoked directly with the request
DirectRun(req) ==
    CASE backend = "axum" -> run_axum(unwrapped, req, env)
      [] backend = "actix" -> run_actix(unwrapped, req, env)
      [] OTHER -> run_actix_wrapped(unwrapped, ActixRequest_from(req), env)

\* The form in which the handle's entry point hands out the direct value v
HandleForm(v) ==
    IF via = "run" THEN v
    ELSE IF backend = "actix_wrapped" THEN Ok(ActixResponse_take(v))
    ELSE Ok(v)

\* C5: invoking a Service through the type-erased handle gives, for the same
\* Requests, the same Responses (and the same effects) as invoking the
\* unwrapped Service directly: the handle forwards and adds nothing.
C5_HandleForwards ==
    \A i \in Idx :
        LET d == DirectRun(futs[i].req)
            dv == resolve(d.fut, futs[i].outcome, d.env)
        IN /\ (TicketOf(d.fut) > 0) = (futs[i].ticket > 0)
           /\ PathsOf(d.fut) = PathsOf(futs[i].fut)
           /\ IF Done(i)
                THEN futs[i].resp = HandleForm(dv.val) /\ futs[i].events = dv.env.events
                ELSE futs[i].resp = NoResponse /\ futs[i].events = d.env.events

C5_Witness ==
    /\ via = "call"
    /\ backend = "axum"
    /\ stack # <<>>
    /\ Len(futs) = 2
    /\ NativeFailed(1)
    /\ NativeSucceeded(2)

\* C6: the native call of the handle never resolves to the error channel:
\* whether the wrapped handler succeeded or failed, it resolves to Ok(response).
C6_CallNeverErr ==
    via = "call" => \A i \in Idx : Done(i) => futs[i].resp.ok /\ futs[i].resp.val.status > 0

C6_Witness ==
    /\ via = "call"
    /\ backend = "actix"
    /\ \E i \in Idx : NativeFailed(i) /\ futs[i].resp.ok

\* The scenario of C7: the echoing terminal handler, wrapped first by the
\* logging Layer and then by the auth Layer
C7_Scenario == backend = "axum" /\ handler = "echo" /\ stack = <<"log", "auth">>
\* The response inside what the caller was handed for request i
Content(i) ==
    IF via = "call" THEN futs[i].resp.val
    ELSE IF backend = "actix_wrapped" THEN ActixResponse_take(futs[i].resp)
    ELSE futs[i].resp
Logged(i, path) == \E k \in 1..Len(env.logged) : env.logged[k] = <<i, path>>
LoggedAny(i) == \E k \in 1..Len(env.logged) : env.logged[k][1] = i

\* C7 as stated: without the marker the answer is 401 and the logging Layer
\* still records the path; with the marker the answer is 200 with the echoed path.
C7_Original ==
    C7_Scenario =>
        \A i \in Idx :
            Done(i) =>
                IF futs[i].req.marker
                  THEN Content(i) = EchoResponse(futs[i].req)
                  ELSE Content(i).status = 401 /\ Logged(i, futs[i].req.path)

\* C7 as amended: without the marker the answer is 401 and the logging Layer,
\* which sits inside the auth Layer, is not entered and records nothing; with
\* the marker the logging Layer records the path and the answer is 200 with
\* the echoed path.
C7_AuthOutsideLogging ==
    C7_Scenario =>
        \A i \in Idx :
            IF futs[i].req.marker
              THEN /\ Logged(i, futs[i].req.path)
                   /\ Done(i) => Content(i) = EchoResponse(futs[i].req)
              ELSE /\ ~LoggedAny(i)
                   /\ Done(i) => Content(i) = Unauthorized

C7_Witness ==
    /\ C7_Scenario
    /\ Len(futs) = 2
    /\ Done(1) /\ ~futs[1].req.marker /\ Content(1).status = 401
    /\ Done(2) /\ futs[2].req.marker /\ Content(2).status = 200

\* C8: every adapter reads the path before it hands the Request over, so the
\* path a future holds, and the path in a failure Response, is the path of the
\* Request that run was called with, never that of another Request.
C8_PathOfOwnRequest ==
    \A i \in Idx :
        /\ PathsOf(futs[i].fut) = {UriPath(futs[i].req)}
        /\ NativeFailed(i) => Content(i).body[2] = UriPath(futs[i].req)

C8_Witness ==
    /\ Len(futs) = 2
    /\ futs[1].req.path # futs[2].req.path
    /\ futs[1].state = "polled"
    /\ NativeFailed(2)
    /\ Content(2).body[2] = futs[2].req.path

\* A dropped future: every level dropped, no response; a held one: no level dropped
C9_DropInv ==
    \A i \in Idx :
        /\ Dropped(i) => /\ LiveLevels(futs[i].fut) = {FALSE}
                         /\ futs[i].delivered = 0
                         /\ futs[i].resp = NoResponse
        /\ Alive(i) => LiveLevels(futs[i].fut) = {TRUE}
\* Nothing about a dropped future changes in any step
C9_DropStep == \A i \in Idx : Dropped(i) => futs'[i] = futs[i]

\* C9: the returned future owns the inner future: dropped before completion,
\* every level of it is dropped with it, no Response is produced for that
\* Request, and nothing about it changes afterwards; while it is held, no level
\* of it has been dropped.
C9_CancellationNotMasked == [](C9_DropInv) /\ [][C9_DropStep]_vars

C9_Witness ==
    /\ via = "call"
    /\ Len(futs) = 2
    /\ Dropped(1) /\ futs[1].polled /\ futs[1].ticket > 0
    /\ Done(2)

RECURSIVE ReachedReqs(_)
\* The Requests of the first n run calls that went through to the native service
ReachedReqs(n) ==
    IF n = 0 THEN <<>>
    ELSE IF futs[n].ticket > 0 THEN Append(ReachedReqs(n - 1), futs[n].req)
    ELSE ReachedReqs(n - 1)
\* No auth Layer cuts request i short
PassesAuth(i) == futs[i].req.marker \/ \A k \in 1..Len(stack) : stack[k] # "auth"

\* C10: the native call is made inside run, before the future is first polled:
\* the native service has received the Requests in the order run was called,
\* whatever was polled, completed or dropped since, each exactly once.
C10_CalledInRunOrder ==
    /\ env.received = ReachedReqs(Len(futs))
    /\ \A i \in Idx :
          /\ PassesAuth(i) <=> futs[i].ticket > 0
          /\ futs[i].ticket > 0 => futs[i].ticket = Len(ReachedReqs(i))

C10_Witness ==
    /\ Len(futs) = 2
    /\ Dropped(1) /\ ~futs[1].polled
    /\ Done(2)
    /\ futs[1].req # futs[2].req
    /\ env.received = <<futs[1].req, futs[2].req>>

=============================================================================
